---- MODULE Spec2Model ----
(***************************************************************************)
(* Model of app/main.py: the scrape-parse-persist pipeline of /vacancies   *)
(* and /applicants, and the two counting analytics endpoints.              *)
(*                                                                         *)
(* Text is modelled as a sequence of characters, each character a short    *)
(* string.  The module is ASCII, so the Cyrillic suffix of line 135 is     *)
(* written with the Latin letters "r" "u" "b" followed by ".", and the     *)
(* no-break space U+00A0 is the character "nbsp".                          *)
(* An optional value is None (the empty tuple) or Some(v) (a 1-tuple).     *)
(***************************************************************************)
EXTENDS Integers, Sequences, FiniteSets, TLC

\* ------------------------------------------------------------------ bounds
NumRequests == 2       \* requests served, possibly concurrently
MaxBlocks == 2         \* item blocks in one upstream document
MaxBlocksConcurrent == 1   \* the same, when several requests are served
MaxLen == 3            \* characters of a sidebar text before the suffix

Reqs == 1..NumRequests

\* ------------------------------------------------------------ optional values
None == <<>>
Some(v) == <<v>>

\* ------------------------------------------------------------------ text
IsPrefixAt(s, pat, i) ==
    /\ i + Len(pat) - 1 <= Len(s)
    /\ \A k \in 1..Len(pat) : s[i + k - 1] = pat[k]

\* str.replace(old, new): every non-overlapping occurrence, left to right.
RECURSIVE ReplaceFrom(_, _, _, _)
ReplaceFrom(s, old, new, i) ==
    IF i > Len(s) THEN <<>>
    ELSE IF IsPrefixAt(s, old, i)
         THEN new \o ReplaceFrom(s, old, new, i + Len(old))
         ELSE <<s[i]>> \o ReplaceFrom(s, old, new, i + 1)

Replace(s, old, new) == ReplaceFrom(s, old, new, 1)

\* ', '.join(tokens): the tokens with the separator between neighbours.
RECURSIVE Join(_, _)
Join(sep, tokens) ==
    IF tokens = <<>> THEN <<>>
    ELSE IF Len(tokens) = 1 THEN <<tokens[1]>>
    ELSE <<tokens[1], sep>> \o Join(sep, Tail(tokens))

\* ------------------------------------------------------------------ int()
Digits == {"0", "1", "2", "3", "4", "5", "6", "7", "8", "9"}
DigitVal(c) ==
    CASE c = "0" -> 0 [] c = "1" -> 1 [] c = "2" -> 2 [] c = "3" -> 3
      [] c = "4" -> 4 [] c = "5" -> 5 [] c = "6" -> 6 [] c = "7" -> 7
      [] c = "8" -> 8 [] c = "9" -> 9

\* The characters str.isspace() accepts, as far as the model's alphabet goes.
Whitespace == {" ", "nbsp", "\t", "\n"}

RECURSIVE LStrip(_)
LStrip(s) == IF s # <<>> /\ Head(s) \in Whitespace THEN LStrip(Tail(s)) ELSE s

RECURSIVE RStrip(_)
RStrip(s) ==
    IF s # <<>> /\ s[Len(s)] \in Whitespace
    THEN RStrip(SubSeq(s, 1, Len(s) - 1)) ELSE s

Strip(s) == RStrip(LStrip(s))

\* A decimal literal body: digits, with single underscores between digits.
IsDecimalBody(s) ==
    /\ s # <<>>
    /\ \A i \in 1..Len(s) : s[i] \in Digits \cup {"_"}
    /\ s[1] \in Digits
    /\ s[Len(s)] \in Digits
    /\ \A i \in 1..(Len(s) - 1) : ~(s[i] = "_" /\ s[i + 1] = "_")

RECURSIVE DecimalValue(_, _)
DecimalValue(s, acc) ==
    IF s = <<>> THEN acc
    ELSE IF Head(s) = "_" THEN DecimalValue(Tail(s), acc)
    ELSE DecimalValue(Tail(s), 10 * acc + DigitVal(Head(s)))

\* int(text): Some(n), or None where int() raises ValueError.
IntParse(text) ==
    LET t == Strip(text)
        signed == t # <<>> /\ t[1] \in {"+", "-"}
        body == IF signed THEN Tail(t) ELSE t
    IN  IF IsDecimalBody(body)
        THEN Some(IF signed /\ t[1] = "-"
                  THEN 0 - DecimalValue(body, 0)
                  ELSE DecimalValue(body, 0))
        ELSE None

\* --------------------------------------------------------------- salary
Suffix == <<"r", "u", "b", ".">>

\* Lines 133-139: salary is None without a sidebar element, else the int of
\* the sidebar text with the suffix and the ordinary spaces removed, None
\* when int() raises ValueError.
ParseSalary(salary_element) ==
    IF salary_element = None THEN None
    ELSE IntParse(Replace(Replace(salary_element[1], Suffix, <<>>),
                          <<" ">>, <<>>))

\* ------------------------------------------------------------- encodings
IsContinuation(b) == b \in 128..191

\* bytes.decode('utf-8') succeeds: the well-formed UTF-8 byte sequences.
RECURSIVE Utf8Valid(_)
Utf8Valid(bs) ==
    IF bs = <<>> THEN TRUE
    ELSE LET b == bs[1]
             n == Len(bs)
             rest(k) == SubSeq(bs, k + 1, n)
         IN  IF b \in 0..127 THEN Utf8Valid(rest(1))
             ELSE IF b \in 194..223
                  THEN n >= 2 /\ IsContinuation(bs[2]) /\ Utf8Valid(rest(2))
             ELSE IF b \in 224..239
                  THEN /\ n >= 3
                       /\ bs[2] \in (IF b = 224 THEN 160..191
                                     ELSE IF b = 237 THEN 128..159
                                     ELSE 128..191)
                       /\ IsContinuation(bs[3])
                       /\ Utf8Valid(rest(3))
             ELSE IF b \in 240..244
                  THEN /\ n >= 4
                       /\ bs[2] \in (IF b = 240 THEN 144..191
                                     ELSE IF b = 244 THEN 128..143
                                     ELSE 128..191)
                       /\ IsContinuation(bs[3])
                       /\ IsContinuation(bs[4])
                       /\ Utf8Valid(rest(4))
             ELSE FALSE

IsAscii(bs) == \A i \in 1..Len(bs) : bs[i] \in 0..127

\* chardet.detect(content)['encoding'] (line 114): None for empty input,
\* 'ascii' for 7-bit input; for input with high bytes the detector is
\* statistical, so every label it can give is an outcome: a multi-byte or a
\* single-byte encoding, or (only when the bytes are not UTF-8) no label.
Detect(content) ==
    IF content = <<>> THEN {None}
    ELSE IF IsAscii(content) THEN {Some("ascii")}
    ELSE IF Utf8Valid(content) THEN {Some("utf-8"), Some("windows-1251")}
    ELSE {Some("windows-1251"), None}

\* content.decode(encoding) returns; otherwise it raises (TypeError for a
\* None label, UnicodeDecodeError for bytes the codec rejects: byte 0x98 is
\* unassigned in windows-1251).
CanDecode(content, encoding) ==
    IF encoding = None THEN FALSE
    ELSE CASE encoding[1] = "ascii" -> IsAscii(content)
           [] encoding[1] = "utf-8" -> Utf8Valid(content)
           [] encoding[1] = "windows-1251" ->
                  \A i \in 1..Len(content) : content[i] # 152

\* Lines 107-117: the fixed utf-8 decode of line 108, then the decode with
\* the detected label of line 117; TRUE when neither raises.
DecodeSucceeds(content, encoding) ==
    Utf8Valid(content) /\ CanDecode(content, encoding)

\* --------------------------------------------------------------- inputs
\* Upstream status codes and response bodies (as bytes): an empty body, a
\* Cyrillic letter in UTF-8 (whose second byte windows-1251 rejects), and a
\* byte that is not UTF-8.
Statuses == {200, 404, 503}
Contents == {<<>>, <<208, 152>>, <<255>>}

\* What the selectors of lines 127-131 find in one '.vacancy-serp-item':
\* the text of the first match, or None without a match; skills is the list
\* of the texts of all matches.
VBlock(t, d, sk, e, sb) ==
    [title |-> t, description |-> d, skills |-> sk,
     employment_format |-> e, sidebar |-> sb]

VacancyBlocks ==
    { VBlock(Some("Engineer"), Some("Build stuff"), <<"Python", "SQL">>,
             Some("Remote"), Some(<<"1", " ", "0">> \o Suffix)),
      VBlock(Some("Engineer"), Some("Build stuff"), <<>>, None, None),
      VBlock(Some("Engineer"), Some("Build stuff"), <<>>,
             Some("Remote"), Some(<<"-", "5">> \o Suffix)),
      VBlock(None, Some("Build stuff"), <<"SQL">>, Some("Remote"), None),
      VBlock(Some(""), Some("Build stuff"), <<>>, Some("Remote"), None),
      VBlock(Some("Engineer"), None, <<>>, Some("Remote"), None) }

\* What lines 188-189 find in one '.resume-serp-item'.
ABlock(n, sk) == [name |-> n, skills |-> sk]

ApplicantBlocks ==
    { ABlock(Some("Ivan"), <<"Python", "SQL">>),
      ABlock(None, <<"SQL">>),
      ABlock(Some(""), <<>>) }

\* All sequences over S of length at most n.
RECURSIVE SeqsUpTo(_, _)
SeqsUpTo(S, n) ==
    IF n = 0 THEN {<<>>}
    ELSE LET shorter == SeqsUpTo(S, n - 1)
         IN  shorter \cup {Append(q, x) : q \in shorter, x \in S}

VacancyDocs == SeqsUpTo(VacancyBlocks, MaxBlocks)
ApplicantDocs == SeqsUpTo(ApplicantBlocks, MaxBlocks)

\* Sidebar texts: every text of at most MaxLen characters of the alphabet,
\* alone and followed by the suffix.
SalaryChars == {"1", "0", " ", "nbsp", "-", "_", "x"}
SalaryTexts ==
    {p \o sfx : p \in SeqsUpTo(SalaryChars, MaxLen), sfx \in {<<>>, Suffix}}
SalaryDocs ==
    { <<VBlock(Some("Engineer"), Some("Build stuff"), <<>>, Some("Remote"),
               Some(text))>> : text \in SalaryTexts }

\* The documents of the runs with several requests: blocks that differ only
\* in whether the required field is there.
FewVacancyDocs ==
    SeqsUpTo({ VBlock(Some("Engineer"), Some("Build stuff"), <<"Python", "SQL">>,
                      Some("Remote"), Some(<<"1", " ", "0">> \o Suffix)),
               VBlock(None, Some("Build stuff"), <<"SQL">>, Some("Remote"), None) },
             MaxBlocksConcurrent)
FewApplicantDocs ==
    SeqsUpTo({ ABlock(Some("Ivan"), <<"Python", "SQL">>), ABlock(None, <<"SQL">>) },
             MaxBlocksConcurrent)

\* ---------------------------------------------------------------- state
VARIABLES
    pc,          \* per request: where its handler stands
    kind,        \* per request: the endpoint it calls
    response,    \* per request: the upstream response, [status_code, content]
    fetches,     \* per request: GET requests issued upstream
    blocks,      \* per request: the item blocks soup.select yields
    pos,         \* per request: index of the block the loop is at
    pending,     \* per request: the object added to its session, not committed
    result,      \* per request: the handler's list of persisted rows
    outcome,     \* per request: what the endpoint answers
    vacancies,   \* table vacancies, in insertion order
    applicants,  \* table applicants, in insertion order
    inserted     \* per request: the inserts the store committed for it

vars == <<pc, kind, response, fetches, blocks, pos, pending, result, outcome,
          vacancies, applicants, inserted>>

NoResponse == [status_code |-> 0, content |-> <<>>]
NoOutcome == [status_code |-> 0, error |-> "none", body |-> <<>>]

Init ==
    /\ pc = [r \in Reqs |-> "idle"]
    /\ kind = [r \in Reqs |-> "none"]
    /\ response = [r \in Reqs |-> NoResponse]
    /\ fetches = [r \in Reqs |-> 0]
    /\ blocks = [r \in Reqs |-> <<>>]
    /\ pos = [r \in Reqs |-> 0]
    /\ pending = [r \in Reqs |-> None]
    /\ result = [r \in Reqs |-> <<>>]
    /\ outcome = [r \in Reqs |-> NoOutcome]
    /\ vacancies = <<>>
    /\ applicants = <<>>
    /\ inserted = [r \in Reqs |-> <<>>]

\* ------------------------------------------------------------- handlers
Pipelines == {"vacancies", "applicants"}

FetchFailedOnlyServerErrors(resp) == resp.status_code >= 500

\* Lines 104 and 169: any status other than 200 aborts the request.
FetchFailed(resp) == resp.status_code # 200

\* Lines 103-106 and 168-171: one GET; on a failed fetch HTTPException with
\* the upstream status is raised, and get_db's finally closes the session.
Fetch(r, k, status, content) ==
    LET resp == [status_code |-> status, content |-> content]
    IN  /\ pc[r] = "idle"
        /\ kind' = [kind EXCEPT ![r] = k]
        /\ fetches' = [fetches EXCEPT ![r] = @ + 1]
        /\ response' = [response EXCEPT ![r] = resp]
        /\ IF FetchFailed(resp)
           THEN /\ pc' = [pc EXCEPT ![r] = "error"]
                /\ outcome' = [outcome EXCEPT ![r] =
                       [status_code |-> status, error |-> "HTTPException",
                        body |-> <<>>]]
           ELSE /\ pc' = [pc EXCEPT ![r] = "fetched"]
                /\ UNCHANGED outcome
        /\ UNCHANGED <<blocks, pos, pending, result, vacancies, applicants, inserted>>

\* Lines 107-126 and 172-187: decode, parse, select the item blocks.  An
\* exception of a decode is not caught: the request ends as a server error.
DecodeAndSelect(r, docs) ==
    /\ pc[r] = "fetched"
    /\ \E encoding \in Detect(response[r].content) :
          IF DecodeSucceeds(response[r].content, encoding)
          THEN /\ \E doc \in docs : blocks' = [blocks EXCEPT ![r] = doc]
               /\ pos' = [pos EXCEPT ![r] = 1]
               /\ pc' = [pc EXCEPT ![r] = "loop"]
               /\ UNCHANGED outcome
          ELSE /\ pc' = [pc EXCEPT ![r] = "error"]
               /\ outcome' = [outcome EXCEPT ![r] =
                      [status_code |-> 500, error |-> "DecodeError",
                       body |-> <<>>]]
               /\ UNCHANGED <<blocks, pos>>
    /\ UNCHANGED <<kind, response, fetches, pending, result, vacancies,
                   applicants, inserted>>

IsPresent(text) == text # None

\* Python truthiness of an optional text: None and '' are false.
Truthy(text) == text # None /\ text[1] # ""

\* Lines 143 and 193: the required fields of a block are there.
Required(k, b) ==
    IF k = "vacancies" THEN Truthy(b.title) /\ Truthy(b.description)
    ELSE Truthy(b.name)

\* Lines 144-150 and 194-197: the object built from a block, before the
\* store gives it an id.
Record(k, b) ==
    IF k = "vacancies"
    THEN [title |-> b.title[1],
          description |-> b.description[1],
          skills |-> Join(", ", b.skills),
          employment_format |-> b.employment_format,
          salary |-> ParseSalary(b.sidebar)]
    ELSE [name |-> b.name[1], skills |-> Join(", ", b.skills)]

\* One turn of the loops of lines 126-156 and 187-203, up to db.add.
Step(r) ==
    /\ pc[r] = "loop"
    /\ pos[r] <= Len(blocks[r])
    /\ LET b == blocks[r][pos[r]]
       IN  IF Required(kind[r], b)
           THEN /\ pending' = [pending EXCEPT ![r] = Some(Record(kind[r], b))]
                /\ pc' = [pc EXCEPT ![r] = "commit"]
                /\ UNCHANGED pos
           ELSE /\ pos' = [pos EXCEPT ![r] = @ + 1]
                /\ UNCHANGED <<pc, pending>>
    /\ UNCHANGED <<kind, response, fetches, blocks, result, outcome, vacancies,
                   applicants, inserted>>

\* The primary key the store assigns to a new row of the table.
NextId(table) == Len(table) + 1

WithId(rec, id) == [f \in DOMAIN rec \cup {"id"} |->
                       IF f = "id" THEN id ELSE rec[f]]

InsertOverwritingLast(table, row) ==
    IF table = <<>> THEN <<row>>
    ELSE [table EXCEPT ![Len(table)] = row]

SameButId(a, b) == \A f \in DOMAIN a \ {"id"} : a[f] = b[f]

InsertUnlessKnown(table, row) ==
    IF \E i \in 1..Len(table) : SameButId(table[i], row) THEN table
    ELSE Append(table, row)

\* The INSERT that db.commit() flushes: one more row at the end of the table.
Insert(table, row) == Append(table, row)

PrependResult(list, row) == <<row>> \o list

\* Lines 154 and 201: the refreshed row goes to the end of the handler's list.
AppendResult(list, row) == Append(list, row)

\* Lines 152-154 and 199-201: commit, refresh, append to the handler's list.
CommitOk(r) ==
    /\ pc[r] = "commit"
    /\ LET table == IF kind[r] = "vacancies" THEN vacancies ELSE applicants
           row == WithId(pending[r][1], NextId(table))
       IN  /\ IF kind[r] = "vacancies"
              THEN vacancies' = Insert(vacancies, row) /\ UNCHANGED applicants
              ELSE applicants' = Insert(applicants, row) /\ UNCHANGED vacancies
           /\ result' = [result EXCEPT ![r] = AppendResult(@, row)]
           /\ inserted' = [inserted EXCEPT ![r] =
                  Append(@, [table |-> kind[r], id |-> row.id])]
    /\ pending' = [pending EXCEPT ![r] = None]
    /\ pos' = [pos EXCEPT ![r] = @ + 1]
    /\ pc' = [pc EXCEPT ![r] = "loop"]
    /\ UNCHANGED <<kind, response, fetches, blocks, outcome>>

CloseUndoingRequest(table, mine) ==
    SelectSeq(table, LAMBDA row : \A i \in 1..Len(mine) : mine[i] # row)

\* Lines 93-94: db.close() after a failed commit ends the failed transaction
\* only; what the request committed before (mine) stays in the table.
Close(table, mine) == table

\* db.commit() raises: nothing catches it, the request ends as a server
\* error and get_db's finally closes the session, which drops what was
\* pending.
CommitFail(r) ==
    /\ pc[r] = "commit"
    /\ IF kind[r] = "vacancies"
       THEN vacancies' = Close(vacancies, result[r]) /\ UNCHANGED applicants
       ELSE applicants' = Close(applicants, result[r]) /\ UNCHANGED vacancies
    /\ pending' = [pending EXCEPT ![r] = None]
    /\ pc' = [pc EXCEPT ![r] = "error"]
    /\ outcome' = [outcome EXCEPT ![r] =
           [status_code |-> 500, error |-> "StorageFailure", body |-> <<>>]]
    /\ UNCHANGED <<kind, response, fetches, blocks, pos, result, inserted>>

\* Lines 57-70: VacancyResponse needs title, description, skills and
\* employment_format to be str and id to be int.  Lines 72-83 for applicants.
ResponseValid(k, row) ==
    IF k = "vacancies" THEN row.employment_format # None ELSE TRUE

\* The response model's fields of a row (salary is not among them).
Serialize(k, row) ==
    IF k = "vacancies"
    THEN [id |-> row.id, title |-> row.title, description |-> row.description,
          skills |-> row.skills, employment_format |-> row.employment_format[1]]
    ELSE [id |-> row.id, name |-> row.name, skills |-> row.skills]

\* Lines 158-159 and 205-206 with the response_model of lines 96 and 161:
\* the list is returned and validated on the way out.
Return(r) ==
    /\ pc[r] = "loop"
    /\ pos[r] > Len(blocks[r])
    /\ IF \A i \in 1..Len(result[r]) : ResponseValid(kind[r], result[r][i])
       THEN /\ pc' = [pc EXCEPT ![r] = "done"]
            /\ outcome' = [outcome EXCEPT ![r] =
                   [status_code |-> 200, error |-> "none",
                    body |-> [i \in 1..Len(result[r]) |->
                                 Serialize(kind[r], result[r][i])]]]
       ELSE /\ pc' = [pc EXCEPT ![r] = "error"]
            /\ outcome' = [outcome EXCEPT ![r] =
                   [status_code |-> 500, error |-> "ResponseValidationError",
                    body |-> <<>>]]
    /\ UNCHANGED <<kind, response, fetches, blocks, pos, pending, result,
                   vacancies, applicants, inserted>>

\* Lines 208-216: the row count of a table.
Analytics(r, k) ==
    /\ pc[r] = "idle"
    /\ k \in {"analytics/vacancies", "analytics/applicants"}
    /\ kind' = [kind EXCEPT ![r] = k]
    /\ pc' = [pc EXCEPT ![r] = "done"]
    /\ outcome' = [outcome EXCEPT ![r] =
           [status_code |-> 200, error |-> "none",
            body |-> IF k = "analytics/vacancies"
                     THEN [num_vacancies |-> Len(vacancies)]
                     ELSE [num_applicants |-> Len(applicants)]]]
    /\ UNCHANGED <<response, fetches, blocks, pos, pending, result, vacancies,
                   applicants, inserted>>

\* Requests are numbered in their order of arrival.
Arrives(r) == IF r = 1 THEN TRUE ELSE pc[r - 1] # "idle"

\* The steps of the requests R over the given upstream bodies and documents.
NextOver(R, contents, vacancyDocs, applicantDocs) ==
    \E r \in R :
        \/ /\ Arrives(r)
           /\ \E k \in Pipelines, status \in Statuses, content \in contents :
                  Fetch(r, k, status, content)
        \/ DecodeAndSelect(r, IF kind[r] = "vacancies" THEN vacancyDocs
                              ELSE applicantDocs)
        \/ Step(r)
        \/ CommitOk(r)
        \/ CommitFail(r)
        \/ Return(r)
        \/ /\ Arrives(r)
           /\ \E k \in {"analytics/vacancies", "analytics/applicants"} :
                  Analytics(r, k)

\* The service: NumRequests requests, served concurrently, every upstream
\* body the Cyrillic one (which decodes or not, as the detector decides).
Next == NextOver(Reqs, {<<208, 152>>}, FewVacancyDocs, FewApplicantDocs)

Spec == Init /\ [][Next]_vars

\* One request alone, over every body, every kind of block and every
\* sidebar text.
NextSingle ==
    NextOver({1}, Contents, VacancyDocs \cup SalaryDocs, ApplicantDocs)

SpecSingle == Init /\ [][NextSingle]_vars

\* ------------------------------------------------------- claims: helpers
Finished(r) == pc[r] \in {"done", "error"}

\* The loop of the request ran to the end of the document.
LoopEnded(r) == Finished(r) /\ pos[r] > Len(blocks[r])

Table(k) == IF k = "vacancies" THEN vacancies ELSE applicants

NonEmpty(text) == text # None /\ text # Some("")

\* The required fields of a block hold text.
HasRequired(k, b) ==
    IF k = "vacancies" THEN NonEmpty(b.title) /\ NonEmpty(b.description)
    ELSE NonEmpty(b.name)

\* The required fields of a block were matched by their selectors.
MatchedRequired(k, b) ==
    IF k = "vacancies" THEN b.title # None /\ b.description # None
    ELSE b.name # None

\* The inserts of request r, in the order the store committed them.
InsertsOf(r) == inserted[r]

\* The blocks with text in the required fields among those the loop of r
\* has dealt with.
ValidBefore(r) ==
    SelectSeq(SubSeq(blocks[r], 1, pos[r] - 1),
              LAMBDA b : HasRequired(kind[r], b))

RECURSIVE SumValid(_, _)
SumValid(R, k) ==
    IF R = {} THEN 0
    ELSE LET r == CHOOSE q \in R : TRUE
         IN  (IF kind[r] = k THEN Len(ValidBefore(r)) ELSE 0)
             + SumValid(R \ {r}, k)

IsPrefix(s, t) == Len(s) <= Len(t) /\ \A i \in 1..Len(s) : s[i] = t[i]

\* ---------------------------------------------------------------- C1
\* C1: in both pipelines, when the upstream fetch returns a status other
\* than 200 the request ends with an error carrying exactly that status,
\* one fetch was issued, and the request inserted no record in any table.
C1_FetchFailureAborts ==
    \A r \in Reqs :
        (kind[r] \in Pipelines /\ response[r].status_code # 200) =>
            /\ pc[r] = "error"
            /\ outcome[r].error = "HTTPException"
            /\ outcome[r].status_code = response[r].status_code
            /\ fetches[r] = 1
            /\ result[r] = <<>>
            /\ InsertsOf(r) = <<>>

C1_Witness ==
    \E r, q \in Reqs :
        /\ kind[r] = "vacancies" /\ response[r].status_code = 503
        /\ outcome[r].status_code = 503
        /\ kind[q] = "applicants" /\ response[q].status_code = 404
        /\ outcome[q].status_code = 404

\* ---------------------------------------------------------------- C2
\* C2: in every reachable state every row of vacancies has a non-empty
\* title and a non-empty description and every row of applicants a
\* non-empty name; a block without a required field is never persisted, nor
\* held as a record about to be persisted.
C2_RequiredFieldsStored ==
    /\ \A i \in 1..Len(vacancies) :
           vacancies[i].title # "" /\ vacancies[i].description # ""
    /\ \A i \in 1..Len(applicants) : applicants[i].name # ""
    /\ \A r \in Reqs :
           /\ Len(InsertsOf(r)) = Len(ValidBefore(r))
           /\ pending[r] # None => HasRequired(kind[r], blocks[r][pos[r]])

C2_Witness ==
    \E r \in Reqs :
        /\ pc[r] = "done"
        /\ kind[r] = "vacancies"
        /\ Len(blocks[r]) = 2
        /\ blocks[r][1].title = Some("")
        /\ Len(vacancies) = 1

\* ---------------------------------------------------------------- C3
\* The list a successful request returns is the blocks satisfying keep, in
\* document order, each inserted once and in that order.
ReturnedIsKept(keep(_, _)) ==
    \A r \in Reqs :
        (pc[r] = "done" /\ kind[r] \in Pipelines) =>
            LET kept == SelectSeq(blocks[r], LAMBDA b : keep(kind[r], b))
                body == outcome[r].body
                mine == InsertsOf(r)
            IN  /\ Len(body) = Len(kept)
                /\ Len(mine) = Len(kept)
                /\ \A i \in 1..Len(kept) :
                       /\ body[i].skills = Join(", ", kept[i].skills)
                       /\ IF kind[r] = "vacancies"
                          THEN /\ body[i].title = kept[i].title[1]
                               /\ body[i].description = kept[i].description[1]
                               /\ Some(body[i].employment_format)
                                      = kept[i].employment_format
                          ELSE body[i].name = kept[i].name[1]
                       /\ mine[i].id = body[i].id
                       /\ mine[i].table = kind[r]
                       /\ \E j \in 1..Len(Table(kind[r])) :
                              Table(kind[r])[j] = result[r][i]
                       /\ result[r][i].id = body[i].id
                       /\ \A j \in 1..(i - 1) : body[j].id < body[i].id

\* C3 as written: the returned list is the subsequence of the blocks whose
\* required fields are present (matched by their selectors).
C3_ReturnsBlocksWithFieldsPresent == ReturnedIsKept(MatchedRequired)

\* C3, amended: the returned list of a successful request is exactly the
\* subsequence of the blocks whose required fields are present with
\* non-empty text, in document order, each inserted exactly once and in that
\* order; without any such block the list is empty and nothing is inserted.
C3_ReturnsBlocksWithFieldsNonEmpty == ReturnedIsKept(HasRequired)

C3_Witness ==
    \E r \in Reqs :
        /\ pc[r] = "done"
        /\ Len(blocks[r]) = 2
        /\ Len(outcome[r].body) = 2
        /\ outcome[r].body[1].skills # outcome[r].body[2].skills

\* ---------------------------------------------------------------- C4
\* C4: each record is committed on its own: when the write of the k-th
\* valid block of a request fails, the k-1 records the request inserted
\* before are still rows of the table, the request ends with an error, and
\* the request has inserted nothing after them.
C4_EarlierCommitsSurvive ==
    \A r \in Reqs :
        outcome[r].error = "StorageFailure" =>
            /\ pc[r] = "error"
            /\ outcome[r].status_code = 500
            /\ HasRequired(kind[r], blocks[r][pos[r]])
            /\ Len(result[r]) = Len(ValidBefore(r))
            /\ Len(InsertsOf(r)) = Len(ValidBefore(r))
            /\ \A i \in 1..Len(result[r]) :
                   \E j \in 1..Len(Table(kind[r])) :
                       Table(kind[r])[j] = result[r][i]

C4_Witness ==
    \E r \in Reqs :
        /\ outcome[r].error = "StorageFailure"
        /\ pos[r] = 2
        /\ Len(result[r]) = 1
        /\ Len(Table(kind[r])) = 1

\* ---------------------------------------------------------------- C5
\* C5: after a 200 fetch the detect-and-decode step never raises, whatever
\* the body: the request goes on to the extraction of the blocks.
C5_DecodeNeverRaises ==
    \A r \in Reqs :
        (kind[r] \in Pipelines /\ response[r].status_code = 200
             /\ pc[r] # "fetched") =>
            /\ outcome[r].error # "DecodeError"
            /\ pos[r] >= 1

\* ---------------------------------------------------------------- C6
DigitsOf(text) == SelectSeq(text, LAMBDA c : c \in Digits)

WithoutWhitespace(text) == SelectSeq(text, LAMBDA c : c \notin Whitespace)

\* The text is digits and whitespace, at least one digit, then the suffix.
IsAmount(text) ==
    /\ Len(text) > Len(Suffix)
    /\ SubSeq(text, Len(text) - Len(Suffix) + 1, Len(text)) = Suffix
    /\ \A i \in 1..(Len(text) - Len(Suffix)) : text[i] \in Digits \cup Whitespace
    /\ \E i \in 1..(Len(text) - Len(Suffix)) : text[i] \in Digits

\* What is left of the text without the suffix and without any whitespace.
Remainder(text) == WithoutWhitespace(Replace(text, Suffix, <<>>))

IsNumeric(text) == text # <<>> /\ \A i \in 1..Len(text) : text[i] \in Digits

\* C6: for a sidebar text of digits and whitespace (any whitespace) followed
\* by the suffix, the stored salary is the integer of the digits; for a
\* text whose remainder without suffix and whitespace is not purely numeric,
\* the stored salary is absent.
C6_SalaryParsed ==
    \A r \in Reqs :
        (kind[r] = "vacancies" /\ Len(blocks[r]) = 1 /\ Len(result[r]) = 1
             /\ blocks[r][1].sidebar # None) =>
            LET text == blocks[r][1].sidebar[1]
                salary == result[r][1].salary
            IN  /\ IsAmount(text) =>
                       salary = Some(DecimalValue(DigitsOf(text), 0))
                /\ ~IsNumeric(Remainder(text)) => salary = None

\* The first half of C6 alone: the amounts.
C6_AmountParsed ==
    \A r \in Reqs :
        (kind[r] = "vacancies" /\ Len(blocks[r]) = 1 /\ Len(result[r]) = 1
             /\ blocks[r][1].sidebar # None
             /\ IsAmount(blocks[r][1].sidebar[1])) =>
            result[r][1].salary
                = Some(DecimalValue(DigitsOf(blocks[r][1].sidebar[1]), 0))

\* ---------------------------------------------------------------- C7
IsBare(b) ==
    /\ NonEmpty(b.title) /\ NonEmpty(b.description)
    /\ b.employment_format = None /\ b.sidebar = None

\* C7: a vacancy block with title and description but no meta-info and no
\* sidebar is persisted with employment_format and salary absent, and the
\* request whose loop ended answers without an error, that record in the
\* returned list.
C7_MissingOptionalIsNoError ==
    \A r \in Reqs :
        (kind[r] = "vacancies" /\ LoopEnded(r)
             /\ \E i \in 1..Len(blocks[r]) : IsBare(blocks[r][i])) =>
            /\ pc[r] = "done"
            /\ outcome[r].status_code = 200
            /\ \E j \in 1..Len(result[r]) :
                   /\ result[r][j].employment_format = None
                   /\ result[r][j].salary = None
                   /\ \E i \in 1..Len(outcome[r].body) :
                          outcome[r].body[i].id = result[r][j].id

\* ---------------------------------------------------------------- C8
\* C8: every row of vacancies has a salary that is absent or a non-negative
\* integer, whatever the sidebar text.
C8_SalaryNonNegative ==
    \A i \in 1..Len(vacancies) :
        vacancies[i].salary = None \/ vacancies[i].salary[1] >= 0

\* ---------------------------------------------------------------- C9
\* The requests other than r and q inserted nothing into vacancies.
OnlyInserters(r, q) ==
    \A p \in Reqs \ {r, q} :
        \A i \in 1..Len(inserted[p]) : inserted[p][i].table # "vacancies"

\* C9: two runs of the vacancy pipeline over the same document with n valid
\* blocks insert n rows each: the rows of the two runs have distinct ids,
\* and when nothing else wrote to vacancies the table has 2n rows.
C9_NotIdempotent ==
    \A r, q \in Reqs :
        (r # q /\ kind[r] = "vacancies" /\ kind[q] = "vacancies"
             /\ LoopEnded(r) /\ LoopEnded(q) /\ blocks[r] = blocks[q]) =>
            LET n == Len(SelectSeq(blocks[r],
                                   LAMBDA b : HasRequired("vacancies", b)))
            IN  /\ Len(result[r]) = n
                /\ Len(result[q]) = n
                /\ \A i, j \in 1..n : result[r][i].id # result[q][j].id
                /\ \A i \in 1..n :
                       \E j \in 1..Len(vacancies) : vacancies[j] = result[r][i]
                /\ OnlyInserters(r, q) => Len(vacancies) = 2 * n

C9_Witness ==
    \E r, q \in Reqs :
        /\ r # q
        /\ kind[r] = "vacancies" /\ kind[q] = "vacancies"
        /\ pc[r] = "done" /\ pc[q] = "done"
        /\ blocks[r] = blocks[q]
        /\ Len(result[r]) = 1
        /\ Len(vacancies) = 2

\* --------------------------------------------------------------- C10
\* The request r takes the step.
Steps(r) ==
    <<pc[r], kind[r], pos[r], pending[r], outcome[r]>>
        # <<pc'[r], kind'[r], pos'[r], pending'[r], outcome'[r]>>

NoInsertLost ==
    /\ Len(vacancies) = SumValid(Reqs, "vacancies")
    /\ Len(applicants) = SumValid(Reqs, "applicants")

\* C10: under every interleaving of the requests no insert is lost or
\* duplicated: each table has as many rows as valid blocks were dealt with
\* by the requests of its pipeline, rows are never changed or removed, a
\* vacancy request leaves applicants alone and an applicant request
\* vacancies, and an analytics request served when all other requests have
\* finished returns that count.
C10_ConcurrentInsertsKept ==
    /\ []NoInsertLost
    /\ [][ /\ IsPrefix(vacancies, vacancies')
           /\ IsPrefix(applicants, applicants')
           /\ \A r \in Reqs :
                  Steps(r) =>
                      /\ kind'[r] = "vacancies" => applicants' = applicants
                      /\ kind'[r] = "applicants" => vacancies' = vacancies
                      /\ (\A q \in Reqs \ {r} : Finished(q)) =>
                             /\ kind'[r] = "analytics/vacancies" =>
                                    outcome'[r].body.num_vacancies
                                        = SumValid(Reqs, "vacancies")
                             /\ kind'[r] = "analytics/applicants" =>
                                    outcome'[r].body.num_applicants
                                        = SumValid(Reqs, "applicants")
         ]_vars

C10_Witness ==
    /\ \A r \in Reqs : pc[r] = "done"
    /\ kind[1] = kind[2]
    /\ Len(result[1]) = 1 /\ Len(result[2]) = 1
    /\ result[2][1].id = 1 /\ result[1][1].id = 2

====
